---- MODULE Spec2Model ----
(***************************************************************************)
(* Model of the lazily decoded column (LazyBatchColumn) and of the row     *)
(* batch built from such columns (BatchRows) of                            *)
(*   src/coprocessor/codec/batch/lazy_column.rs                            *)
(*   src/coprocessor/codec/batch/rows.rs                                   *)
(*                                                                         *)
(* Columns live in a heap of owned allocations; a batch holds the          *)
(* addresses of its columns, so that a copy which shares storage and a     *)
(* copy which owns its storage are different states.  A panic (failed      *)
(* assertion, wrong-state access) ends the run: the state it leaves        *)
(* behind is kept, and no operation follows it.                            *)
(*                                                                         *)
(* The datum codec (VectorValue::push_datum), the evaluation-type table    *)
(* (EvalType::try_from) and the typed vector (VectorValue) are not part    *)
(* of the two files; they are modelled from their described interface.     *)
(* The time zone is passed through to the codec unread and is left out.    *)
(***************************************************************************)
EXTENDS Integers, Sequences, FiniteSets

VARIABLES
    heap,     \* address -> column allocation (or Free)
    batch,    \* object id -> BatchRows value (or NoBatch)
    column,   \* object id -> address of a column owned directly (0: none)
    last      \* the call that produced this state, and what it returned

vars == <<heap, batch, column, last>>

---------------------------------------------------------------------------
(* Bounds of the model. *)

\* Rows a column or batch may grow to.
MaxRows == 2

\* Rows an object may grow to when a clone lives beside it.
MaxCloneRows == 1

\* The column counts batches are created with (an input set, like the
\* schemas and the cells below).
ColumnCounts == {0, 1, 2}

MaxCols == CHOOSE n \in ColumnCounts : \A m \in ColumnCounts : m <= n

\* The rows of the batch of three columns.
MaxWideRows == 2

\* Rows an object may grow to when errors are recorded in the batches.
MaxErrorRows == 1

\* columns_count of the wide batch; its columns fit the heap next to no
\* clone.
WideColumns == MaxCols + 1


---------------------------------------------------------------------------
(* Datum bytes, schemas and the external decode primitive. *)

NIL_FLAG == 0

FLOAT_FLAG == 5

VAR_UINT_FLAG == 9

\* datum::DATUM_DATA_NULL: the encoding of an explicit NULL.
DATUM_DATA_NULL == <<NIL_FLAG>>

\* Bytes of the default value the schemas with a default declare.
DefaultVal == <<VAR_UINT_FLAG, 5>>

\* The raw cells pushed: absent, explicit NULL, and an unsigned 1.
CellInputs == << <<>>, <<NIL_FLAG>>, <<VAR_UINT_FLAG, 1>> >>

\* tipb ColumnInfo as decode reads it.
ColumnInfo(tp, has_default_val, flag_not_null, column_id) ==
    [tp |-> tp, has_default_val |-> has_default_val,
     default_val |-> IF has_default_val THEN DefaultVal ELSE <<>>,
     flag_not_null |-> flag_not_null, column_id |-> column_id]

\* The schemas decode is called with.  An unsigned datum does not decode
\* into a Double column, so those schemas give decode-primitive errors.
Schemas ==
    { ColumnInfo("Long", TRUE, FALSE, 1), ColumnInfo("Long", TRUE, TRUE, 2),
      ColumnInfo("Long", FALSE, FALSE, 1), ColumnInfo("Long", FALSE, TRUE, 2),
      ColumnInfo("Double", FALSE, FALSE, 2), ColumnInfo("Double", FALSE, TRUE, 1),
      ColumnInfo("Double", TRUE, FALSE, 2),
      ColumnInfo("Unspecified", FALSE, FALSE, 1),
      ColumnInfo("Unspecified", FALSE, TRUE, 2) }

\* The schemas columns of a batch are decoded with: one of each outcome
\* (default or NULL for a missing value, the NOT NULL error, a cell the
\* primitive rejects, a type tag without evaluation type).
BatchSchemas ==
    { ColumnInfo("Long", TRUE, FALSE, 1), ColumnInfo("Long", FALSE, TRUE, 2),
      ColumnInfo("Long", FALSE, FALSE, 1),
      ColumnInfo("Double", FALSE, FALSE, 2),
      ColumnInfo("Unspecified", FALSE, TRUE, 2) }

NoError == [kind |-> "None", column_id |-> 0]

Ok == [ok |-> TRUE, panic |-> "", err |-> NoError]

Err(e) == [ok |-> FALSE, panic |-> "", err |-> e]

Panic(why) == [ok |-> FALSE, panic |-> why, err |-> NoError]

\* EvalType::try_from(FieldTypeTp).
EvalTypeTryFrom(tp) ==
    CASE tp = "Long" -> [ok |-> TRUE, eval_type |-> "Int"]
      [] tp = "Double" -> [ok |-> TRUE, eval_type |-> "Real"]
      [] OTHER -> [ok |-> FALSE, eval_type |-> "None"]

\* Option<T>: None is <<>>, Some(x) is <<x>>.
None == <<>>

Some(x) == <<x>>

\* The value one datum decodes to for a vector of the given type.
DecodeDatum(raw_datum, eval_type) ==
    IF Len(raw_datum) = 0
    THEN [ok |-> FALSE, value |-> None]
    ELSE IF raw_datum[1] = NIL_FLAG
    THEN [ok |-> TRUE, value |-> None]
    ELSE IF eval_type = "Int" /\ raw_datum[1] = VAR_UINT_FLAG
    THEN IF Len(raw_datum) >= 2
         THEN [ok |-> TRUE, value |-> Some(raw_datum[2])]
         ELSE [ok |-> FALSE, value |-> None]
    ELSE IF eval_type = "Real" /\ raw_datum[1] = FLOAT_FLAG
    THEN IF Len(raw_datum) >= 2
         THEN [ok |-> TRUE, value |-> Some(raw_datum[2])]
         ELSE [ok |-> FALSE, value |-> None]
    ELSE [ok |-> FALSE, value |-> None]

---------------------------------------------------------------------------
(* Vec<T> and VectorValue: contents and capacity. *)

MaxOf(a, b) == IF a >= b THEN a ELSE b

\* Vec::with_capacity
VecWithCapacity(capacity) == [data |-> <<>>, cap |-> capacity]

\* Vec::push: amortized doubling when full.
VecPush(v, x) ==
    [v EXCEPT !.data = Append(v.data, x),
              !.cap = IF Len(v.data) = v.cap
                      THEN MaxOf(2 * v.cap, Len(v.data) + 1)
                      ELSE v.cap]

\* Vec::truncate: keeps the first len elements, never grows.
VecTruncate(v, len) ==
    [v EXCEPT !.data = IF len < Len(v.data)
                       THEN SubSeq(v.data, 1, len)
                       ELSE v.data]

\* VectorValue::with_capacity
VectorValueWithCapacity(capacity, eval_type) ==
    [eval_type |-> eval_type, data |-> <<>>, cap |-> capacity]

\* VectorValue::push_datum: decodes one datum and appends the value.
VectorValuePushDatum(vec, raw_datum, column_info) ==
    LET d == DecodeDatum(raw_datum, vec.eval_type)
    IN  IF d.ok
        THEN [ok |-> TRUE, vec |-> VecPush(vec, d.value), err |-> NoError]
        ELSE [ok |-> FALSE, vec |-> vec,
              err |-> [kind |-> "Datum", column_id |-> 0]]

---------------------------------------------------------------------------
(* Predicates given to retain_by_index: FnMut(usize) -> bool.               *)
(* An index predicate answers mask[idx]; a stateful one answers from the   *)
(* number of calls made so far, whatever the index. calls and log are the  *)
(* calls made on the predicate: how many, and with which indices in order. *)

IndexPred(mask) ==
    [kind |-> "index", mask |-> mask, calls |-> 0, log |-> <<>>]

StatefulPred(mask) ==
    [kind |-> "stateful", mask |-> mask, calls |-> 0, log |-> <<>>]

\* One call f(idx): the answer and the predicate's state after the call.
PredCall(f, idx) ==
    [r |-> IF f.kind = "index"
           THEN f.mask[idx + 1]
           ELSE f.mask[(f.calls % Len(f.mask)) + 1],
     f |-> [f EXCEPT !.calls = f.calls + 1, !.log = Append(f.log, idx)]]

Masks(n) == [1..n -> BOOLEAN]

\* The index predicates over n rows (one row when n is 0, so that both
\* the always-true and the always-false predicate are among them).
IndexPreds(n) == {IndexPred(m) : m \in Masks(MaxOf(n, 1))}

\* Stateful predicates for n rows: answers cycle through n + 1 values of
\* which exactly one differs from the others, so that columns visited
\* later are asked to keep other rows than the first.
StatefulPreds(n) ==
    {StatefulPred(m) :
        m \in {x \in Masks(n + 1) :
                  \E i \in 1..(n + 1) :
                      \A j \in 1..(n + 1) : j # i => x[j] # x[i]}}

\* RetainLoop with the predicate given the position among the rows kept
\* so far instead of the row's position before the call.
RECURSIVE RetainLoopShiftedIndex(_, _, _, _)
RetainLoopShiftedIndex(data, idx, f, kept) ==
    IF idx >= Len(data)
    THEN [data |-> kept, f |-> f]
    ELSE LET c == PredCall(f, Len(kept))
         IN  RetainLoopShiftedIndex(data, idx + 1, c.f,
                 IF c.r THEN Append(kept, data[idx + 1]) ELSE kept)

\* RetainLoop that visits the elements from the last to the first.
RECURSIVE RetainLoopFromLast(_, _, _, _)
RetainLoopFromLast(data, idx, f, kept) ==
    IF idx >= Len(data)
    THEN [data |-> kept, f |-> f]
    ELSE LET pos == Len(data) - 1 - idx
             c == PredCall(f, pos)
         IN  RetainLoopFromLast(data, idx + 1, c.f,
                 IF c.r THEN <<data[pos + 1]>> \o kept ELSE kept)

\* Vec::retain with the closure of LazyBatchColumn::retain_by_index:
\* every element is visited once, in order, and f gets its old position.
RECURSIVE RetainLoop(_, _, _, _)
RetainLoop(data, idx, f, kept) ==
    IF idx >= Len(data)
    THEN [data |-> kept, f |-> f]
    ELSE LET c == PredCall(f, idx)
         IN  RetainLoop(data, idx + 1, c.f,
                        IF c.r THEN Append(kept, data[idx + 1]) ELSE kept)

\* VectorValue::retain_by_index
VectorValueRetainByIndex(vec, f) ==
    LET r == RetainLoop(vec.data, 0, f, <<>>)
    IN  [v |-> [vec EXCEPT !.data = r.data], f |-> r.f]

---------------------------------------------------------------------------
(* LazyBatchColumn: Raw(Vec<SmallVec<[u8; 9]>>) | Decoded(VectorValue). *)

Raw(v) == [tag |-> "Raw", v |-> v]

Decoded(v) == [tag |-> "Decoded", v |-> v]

\* LazyBatchColumn::raw_with_capacity
raw_with_capacity(capacity) == Raw(VecWithCapacity(capacity))

is_raw(col) == col.tag = "Raw"

is_decoded(col) == col.tag = "Decoded"

\* LazyBatchColumn::get_decoded: the reference returned, or the panic.
get_decoded(col) ==
    IF is_decoded(col)
    THEN [value |-> Some(col.v), res |-> Ok]
    ELSE [value |-> None, res |-> Panic("LazyBatchColumn is not decoded")]

\* get_raw that hands out the vector of a Decoded column too.
get_raw_unchecked(col) == [value |-> Some(col.v), res |-> Ok]

\* LazyBatchColumn::get_raw: the reference returned, or the panic.
get_raw(col) ==
    IF is_raw(col)
    THEN [value |-> Some(col.v), res |-> Ok]
    ELSE [value |-> None,
          res |-> Panic("LazyBatchColumn is already decoded")]

\* LazyBatchColumn::len
len(col) == Len(col.v.data)

\* LazyBatchColumn::capacity
capacity(col) == col.v.cap

is_empty(col) == len(col) = 0

\* truncate that hands back an empty Raw column when asked for no rows.
truncate_resets_to_raw(col, n) ==
    IF n = 0
    THEN raw_with_capacity(capacity(col))
    ELSE [col EXCEPT !.v = VecTruncate(col.v, n)]

\* truncate that resizes: a column shorter than n is filled up to n rows
\* with empty cells.
truncate_resizes(col, n) ==
    [col EXCEPT !.v.data = [i \in 1..n |-> IF i <= Len(@) THEN @[i] ELSE <<>>]]

\* LazyBatchColumn::truncate
truncate(col, n) == [col EXCEPT !.v = VecTruncate(col.v, n)]

\* LazyBatchColumn::clear
clear(col) == truncate(col, 0)

\* retain_by_index that gives the predicate, for a Decoded column, the
\* position among the rows kept so far.
retain_by_index_decoded_shifted(col, f) ==
    IF is_raw(col)
    THEN LET r == RetainLoop(col.v.data, 0, f, <<>>)
         IN  [col |-> Raw([col.v EXCEPT !.data = r.data]), f |-> r.f]
    ELSE LET r == RetainLoopShiftedIndex(col.v.data, 0, f, <<>>)
         IN  [col |-> Decoded([col.v EXCEPT !.data = r.data]), f |-> r.f]

\* LazyBatchColumn::retain_by_index: the column after the call and the
\* predicate's state after it.
retain_by_index(col, f) ==
    IF is_raw(col)
    THEN LET r == RetainLoop(col.v.data, 0, f, <<>>)
         IN  [col |-> Raw([col.v EXCEPT !.data = r.data]), f |-> r.f]
    ELSE LET r == VectorValueRetainByIndex(col.v, f)
         IN  [col |-> Decoded(r.v), f |-> r.f]

\* The NOT NULL error without the schema's column id.
NotNullErrorWithoutId(column_info) ==
    [kind |-> "NotNull", column_id |-> 0]

\* The error of the NOT NULL branch of decode.
NotNullError(column_info) ==
    [kind |-> "NotNull", column_id |-> column_info.column_id]

\* RawDatumOf testing the NOT NULL flag before the default value.
RawDatumOfNotNullFirst(raw_value, column_info) ==
    IF Len(raw_value) = 0
    THEN IF column_info.flag_not_null
         THEN [ok |-> FALSE, raw_datum |-> <<>>]
         ELSE IF column_info.has_default_val
         THEN [ok |-> TRUE, raw_datum |-> column_info.default_val]
         ELSE [ok |-> TRUE, raw_datum |-> DATUM_DATA_NULL]
    ELSE [ok |-> TRUE, raw_datum |-> raw_value]

\* RawDatumOf with the test of the NOT NULL flag inverted.
RawDatumOfInvertedFlag(raw_value, column_info) ==
    IF Len(raw_value) = 0
    THEN IF column_info.has_default_val
         THEN [ok |-> TRUE, raw_datum |-> column_info.default_val]
         ELSE IF column_info.flag_not_null
         THEN [ok |-> TRUE, raw_datum |-> DATUM_DATA_NULL]
         ELSE [ok |-> FALSE, raw_datum |-> <<>>]
    ELSE [ok |-> TRUE, raw_datum |-> raw_value]

\* RawDatumOf that takes a cell holding the encoded NULL datum for a
\* missing value as well.
RawDatumOfNullIsMissing(raw_value, column_info) ==
    IF Len(raw_value) = 0 \/ raw_value = DATUM_DATA_NULL
    THEN IF column_info.has_default_val
         THEN [ok |-> TRUE, raw_datum |-> column_info.default_val]
         ELSE IF ~column_info.flag_not_null
         THEN [ok |-> TRUE, raw_datum |-> DATUM_DATA_NULL]
         ELSE [ok |-> FALSE, raw_datum |-> <<>>]
    ELSE [ok |-> TRUE, raw_datum |-> raw_value]

\* The datum decode feeds to the codec for one raw cell; ok is FALSE on
\* the NOT NULL branch.
RawDatumOf(raw_value, column_info) ==
    IF Len(raw_value) = 0
    THEN IF column_info.has_default_val
         THEN [ok |-> TRUE, raw_datum |-> column_info.default_val]
         ELSE IF ~column_info.flag_not_null
         THEN [ok |-> TRUE, raw_datum |-> DATUM_DATA_NULL]
         ELSE [ok |-> FALSE, raw_datum |-> <<>>]
    ELSE [ok |-> TRUE, raw_datum |-> raw_value]

\* One invocation of the decode primitive by decode: the row whose cell
\* is decoded (from 0) and the datum handed to push_datum.
PushDatumCall(row, raw_datum) == [row |-> row, raw_datum |-> raw_datum]

\* DecodeLoop ending one cell early.
RECURSIVE DecodeLoopOneShort(_, _, _, _)
DecodeLoopOneShort(raw_values, i, decoded_column, column_info) ==
    IF i >= Len(raw_values)
    THEN [ok |-> TRUE, vec |-> decoded_column, err |-> NoError,
          calls |-> <<>>]
    ELSE LET d == RawDatumOf(raw_values[i], column_info)
         IN  IF ~d.ok
             THEN [ok |-> FALSE, vec |-> decoded_column,
                   err |-> NotNullError(column_info), calls |-> <<>>]
             ELSE LET p == VectorValuePushDatum(decoded_column, d.raw_datum,
                                                column_info)
                      c == PushDatumCall(i - 1, d.raw_datum)
                  IN  IF ~p.ok
                      THEN [ok |-> FALSE, vec |-> p.vec, err |-> p.err,
                            calls |-> <<c>>]
                      ELSE LET r == DecodeLoopOneShort(raw_values, i + 1, p.vec,
                                       column_info)
                           IN  [r EXCEPT !.calls = <<c>> \o @]

\* DecodeLoop that goes on to the cells after one that failed and returns
\* the error of the last failing cell.
RECURSIVE DecodeLoopPastFailure(_, _, _, _)
DecodeLoopPastFailure(raw_values, i, decoded_column, column_info) ==
    IF i > Len(raw_values)
    THEN [ok |-> TRUE, vec |-> decoded_column, err |-> NoError,
          calls |-> <<>>]
    ELSE LET d == RawDatumOf(raw_values[i], column_info)
         IN  IF ~d.ok
             THEN LET r == DecodeLoopPastFailure(raw_values, i + 1,
                               decoded_column, column_info)
                  IN  IF r.ok
                      THEN [r EXCEPT !.ok = FALSE,
                                     !.err = NotNullError(column_info)]
                      ELSE r
             ELSE LET p == VectorValuePushDatum(decoded_column, d.raw_datum,
                                                column_info)
                      c == PushDatumCall(i - 1, d.raw_datum)
                      r == DecodeLoopPastFailure(raw_values, i + 1, p.vec,
                                                 column_info)
                  IN  IF ~p.ok /\ r.ok
                      THEN [r EXCEPT !.ok = FALSE, !.err = p.err,
                                     !.calls = <<c>> \o @]
                      ELSE [r EXCEPT !.calls = <<c>> \o @]

\* The for loop of decode over raw_values[i..], pushing into
\* decoded_column; it returns at the first cell that fails.
RECURSIVE DecodeLoop(_, _, _, _)
DecodeLoop(raw_values, i, decoded_column, column_info) ==
    IF i > Len(raw_values)
    THEN [ok |-> TRUE, vec |-> decoded_column, err |-> NoError,
          calls |-> <<>>]
    ELSE LET d == RawDatumOf(raw_values[i], column_info)
         IN  IF ~d.ok
             THEN [ok |-> FALSE, vec |-> decoded_column,
                   err |-> NotNullError(column_info), calls |-> <<>>]
             ELSE LET p == VectorValuePushDatum(decoded_column, d.raw_datum,
                                                column_info)
                      c == PushDatumCall(i - 1, d.raw_datum)
                  IN  IF ~p.ok
                      THEN [ok |-> FALSE, vec |-> p.vec, err |-> p.err,
                            calls |-> <<c>>]
                      ELSE LET r == DecodeLoop(raw_values, i + 1, p.vec,
                                       column_info)
                           IN  [r EXCEPT !.calls = <<c>> \o @]

\* DecodeCommit of a decode that works in place: on an error the values
\* decoded so far stay in the column.
DecodeCommitInPlace(col, r) ==
    IF r.ok
    THEN [col |-> Decoded(r.vec), res |-> Ok, calls |-> r.calls]
    ELSE [col |-> Decoded(r.vec), res |-> Err(r.err), calls |-> r.calls]

\* What decode leaves in *self and returns once the loop has ended.
DecodeCommit(col, r) ==
    IF r.ok
    THEN [col |-> Decoded(r.vec), res |-> Ok, calls |-> r.calls]
    ELSE [col |-> col, res |-> Err(r.err), calls |-> r.calls]

\* decode without the early return: get_raw panics on a Decoded column.
decode_without_early_return(col, column_info) ==
    IF is_decoded(col)
    THEN [col |-> col, res |-> Panic("LazyBatchColumn is already decoded"),
          calls |-> <<>>]
    ELSE LET et == EvalTypeTryFrom(column_info.tp)
         IN  IF ~et.ok
             THEN [col |-> col,
                   res |-> Err([kind |-> "EvalType", column_id |-> 0]),
                   calls |-> <<>>]
             ELSE DecodeCommit(col,
                      DecodeLoop(col.v.data, 1,
                          VectorValueWithCapacity(capacity(col), et.eval_type),
                          column_info))

\* decode that tests the NOT NULL flag of a schema without default value
\* before it looks at any cell.
decode_rejects_not_null_first(col, column_info) ==
    IF is_decoded(col)
    THEN [col |-> col, res |-> Ok, calls |-> <<>>]
    ELSE LET et == EvalTypeTryFrom(column_info.tp)
         IN  IF ~et.ok
             THEN [col |-> col,
                   res |-> Err([kind |-> "EvalType", column_id |-> 0]),
                   calls |-> <<>>]
             ELSE IF column_info.flag_not_null /\ ~column_info.has_default_val
             THEN [col |-> col, res |-> Err(NotNullError(column_info)),
                   calls |-> <<>>]
             ELSE DecodeCommit(col,
                      DecodeLoop(col.v.data, 1,
                          VectorValueWithCapacity(capacity(col), et.eval_type),
                          column_info))

\* decode that sizes the decoded vector by the number of rows instead of
\* the column's capacity.
decode_with_capacity_of_len(col, column_info) ==
    IF is_decoded(col)
    THEN [col |-> col, res |-> Ok, calls |-> <<>>]
    ELSE LET et == EvalTypeTryFrom(column_info.tp)
         IN  IF ~et.ok
             THEN [col |-> col,
                   res |-> Err([kind |-> "EvalType", column_id |-> 0]),
                   calls |-> <<>>]
             ELSE DecodeCommit(col,
                      DecodeLoop(col.v.data, 1,
                          VectorValueWithCapacity(len(col), et.eval_type),
                          column_info))

\* LazyBatchColumn::decode
decode(col, column_info) ==
    IF is_decoded(col)
    THEN [col |-> col, res |-> Ok, calls |-> <<>>]
    ELSE LET et == EvalTypeTryFrom(column_info.tp)
         IN  IF ~et.ok
             THEN [col |-> col,
                   res |-> Err([kind |-> "EvalType", column_id |-> 0]),
                   calls |-> <<>>]
             ELSE DecodeCommit(col,
                      DecodeLoop(col.v.data, 1,
                          VectorValueWithCapacity(capacity(col), et.eval_type),
                          column_info))

\* push_raw that skips a datum of zero length instead of storing it.
push_raw_skips_empty(col, raw_datum) ==
    IF is_raw(col)
    THEN [col |-> IF raw_datum = <<>>
                  THEN col
                  ELSE Raw(VecPush(col.v, raw_datum)),
          res |-> Ok]
    ELSE [col |-> col, res |-> Panic("LazyBatchColumn is already decoded")]

\* push_raw that appends the raw datum to a Decoded column's values.
push_raw_into_decoded(col, raw_datum) ==
    IF is_raw(col)
    THEN [col |-> Raw(VecPush(col.v, raw_datum)), res |-> Ok]
    ELSE [col |-> [col EXCEPT !.v.data = Append(@, raw_datum)], res |-> Ok]

\* LazyBatchColumn::push_raw
push_raw(col, raw_datum) ==
    IF is_raw(col)
    THEN [col |-> Raw(VecPush(col.v, raw_datum)), res |-> Ok]
    ELSE [col |-> col, res |-> Panic("LazyBatchColumn is already decoded")]

\* impl Clone for LazyBatchColumn: a Raw column is copied cell by cell into
\* a vector of the same capacity; a Decoded one through VectorValue::clone.
RECURSIVE CloneCells(_, _, _)
CloneCells(v, i, raw_vec) ==
    IF i > Len(v.data)
    THEN raw_vec
    ELSE CloneCells(v, i + 1, VecPush(raw_vec, v.data[i]))

clone_column(col) ==
    IF is_raw(col)
    THEN Raw(CloneCells(col.v, 1, VecWithCapacity(col.v.cap)))
    ELSE Decoded(col.v)

---------------------------------------------------------------------------
(* The heap of column allocations and the objects that own them. *)

Objects == {1, 2}

Addrs == 1..(2 * MaxOf(MaxCols, 1))

Free == [tag |-> "Free"]

\* The error a caller latches into a batch.
DataError == [kind |-> "Datum", column_id |-> 0]

NoBatch == [live |-> FALSE, columns |-> <<>>, some_error |-> None]

\* The lowest free address.
Alloc(h) == CHOOSE a \in Addrs : h[a] = Free /\ \A b \in Addrs : b < a => h[b] # Free

---------------------------------------------------------------------------
(* BatchRows<E>: columns (addresses into the heap) and some_error. *)

\* BatchRows::raw: the for loop pushing columns_count raw columns.
RECURSIVE RawColumns(_, _, _, _)
RawColumns(h, columns, columns_count, rows_capacity) ==
    IF Len(columns) >= columns_count
    THEN [heap |-> h,
          rows |-> [live |-> TRUE, columns |-> columns, some_error |-> None]]
    ELSE LET a == Alloc(h)
         IN  RawColumns([h EXCEPT ![a] = raw_with_capacity(rows_capacity)],
                        Append(columns, a), columns_count, rows_capacity)

raw(h, columns_count, rows_capacity) ==
    RawColumns(h, <<>>, columns_count, rows_capacity)

columns_len(b) == Len(b.columns)

\* rows_len that reads the last column instead of the first.
rows_len_of_last_column(h, b) ==
    IF Len(b.columns) = 0 THEN 0 ELSE len(h[b.columns[Len(b.columns)]])

\* BatchRows::rows_len
rows_len(h, b) ==
    IF Len(b.columns) = 0 THEN 0 ELSE len(h[b.columns[1]])

\* BatchRows::rows_capacity
rows_capacity(h, b) ==
    IF Len(b.columns) = 0 THEN 0 ELSE capacity(h[b.columns[1]])

\* BatchRows::is_column_decoded
is_column_decoded(h, b, column_index) ==
    is_decoded(h[b.columns[column_index + 1]])

\* The loop of push_raw_row with the test of every column's state made
\* before the first push.
PushRawRowLoopCheckedFirst(h, b, raw_row, col_index) ==
    IF \E i \in (col_index + 1)..Len(raw_row) : ~is_raw(h[b.columns[i]])
    THEN [heap |-> h, res |-> Panic("assert lazy_col.is_raw")]
    ELSE [heap |-> [a \in DOMAIN h |->
                       IF \E i \in (col_index + 1)..Len(raw_row) :
                              b.columns[i] = a
                       THEN push_raw(h[a],
                                raw_row[CHOOSE i \in 1..Len(raw_row) :
                                            b.columns[i] = a]).col
                       ELSE h[a]],
          res |-> Ok]

\* The loop of push_raw_row that passes over a Decoded column instead of
\* failing on it.
RECURSIVE PushRawRowLoopSkippingDecoded(_, _, _, _)
PushRawRowLoopSkippingDecoded(h, b, raw_row, col_index) ==
    IF col_index >= Len(raw_row)
    THEN [heap |-> h, res |-> Ok]
    ELSE LET a == b.columns[col_index + 1]
         IN  PushRawRowLoopSkippingDecoded(
                 IF is_raw(h[a])
                 THEN [h EXCEPT ![a] = push_raw(h[a],
                                           raw_row[col_index + 1]).col]
                 ELSE h,
                 b, raw_row, col_index + 1)

\* The for loop of push_raw_row from column col_index (0-based) on.
RECURSIVE PushRawRowLoop(_, _, _, _)
PushRawRowLoop(h, b, raw_row, col_index) ==
    IF col_index >= Len(raw_row)
    THEN [heap |-> h, res |-> Ok]
    ELSE LET a == b.columns[col_index + 1]
         IN  IF ~is_raw(h[a])
             THEN [heap |-> h, res |-> Panic("assert lazy_col.is_raw")]
             ELSE PushRawRowLoop(
                      [h EXCEPT ![a] = push_raw(h[a], raw_row[col_index + 1]).col],
                      b, raw_row, col_index + 1)

\* push_raw_row whose loop starts at the second column.
push_raw_row_from_second(h, b, raw_row) ==
    IF Len(b.columns) # Len(raw_row)
    THEN [heap |-> h, res |-> Panic("assert_eq columns_len raw_row.len")]
    ELSE PushRawRowLoop(h, b, raw_row, 1)

\* push_raw_row that accepts a row of fewer values than columns and pushes
\* into the leading columns only.
push_raw_row_accepts_short(h, b, raw_row) ==
    IF columns_len(b) < Len(raw_row)
    THEN [heap |-> h, res |-> Panic("assert_eq columns_len raw_row.len")]
    ELSE PushRawRowLoop(h, b, raw_row, 0)

\* push_raw_row that refuses rows once the error slot is set.
push_raw_row_locked_by_error(h, b, raw_row) ==
    IF b.some_error # None
    THEN [heap |-> h, res |-> Panic("batch has an error")]
    ELSE IF columns_len(b) # Len(raw_row)
    THEN [heap |-> h, res |-> Panic("assert_eq columns_len raw_row.len")]
    ELSE PushRawRowLoop(h, b, raw_row, 0)

\* BatchRows::push_raw_row
push_raw_row(h, b, raw_row) ==
    IF columns_len(b) # Len(raw_row)
    THEN [heap |-> h, res |-> Panic("assert_eq columns_len raw_row.len")]
    ELSE PushRawRowLoop(h, b, raw_row, 0)

\* ensure_column_decoded that decodes the first column whatever the index.
ensure_column_decoded_first(h, b, column_index, column_info) ==
    IF column_index >= columns_len(b)
    THEN [heap |-> h, res |-> Panic("index out of bounds"), calls |-> <<>>]
    ELSE LET a == b.columns[1]
             d == decode(h[a], column_info)
         IN  [heap |-> [h EXCEPT ![a] = d.col],
              res |-> IF d.res.ok THEN get_decoded(d.col).res ELSE d.res,
              calls |-> d.calls]

\* BatchRows::ensure_column_decoded
ensure_column_decoded(h, b, column_index, column_info) ==
    LET number_of_rows == rows_len(h, b)
    IN  IF column_index >= columns_len(b)
        THEN [heap |-> h, res |-> Panic("index out of bounds"),
              calls |-> <<>>]
        ELSE LET a == b.columns[column_index + 1]
             IN  IF len(h[a]) # number_of_rows
                 THEN [heap |-> h,
                       res |-> Panic("assert_eq col.len number_of_rows"),
                       calls |-> <<>>]
                 ELSE LET d == decode(h[a], column_info)
                      IN  [heap |-> [h EXCEPT ![a] = d.col],
                           res |-> IF d.res.ok
                                   THEN get_decoded(d.col).res
                                   ELSE d.res,
                           calls |-> d.calls]

\* The loop of retain_by_index without the comparison of each column's
\* new length with the first column's.
RECURSIVE RetainColumnsLoopUnchecked(_, _, _, _, _, _)
RetainColumnsLoopUnchecked(h, b, f, current_rows_len, i, new_rows) ==
    IF i > Len(b.columns)
    THEN [heap |-> h, res |-> Ok, f |-> f]
    ELSE LET a == b.columns[i]
         IN  IF len(h[a]) # current_rows_len
             THEN [heap |-> h, f |-> f,
                   res |-> Panic("assert_eq col.len current_rows_len")]
             ELSE LET r == retain_by_index(h[a], f)
                  IN  RetainColumnsLoopUnchecked([h EXCEPT ![a] = r.col], b,
                          r.f, current_rows_len, i + 1, Some(len(r.col)))

\* The for loop of BatchRows::retain_by_index from column i (1-based) on;
\* new_rows is the Option<usize> the loop carries.
RECURSIVE RetainColumnsLoop(_, _, _, _, _, _)
RetainColumnsLoop(h, b, f, current_rows_len, i, new_rows) ==
    IF i > Len(b.columns)
    THEN [heap |-> h, res |-> Ok, f |-> f]
    ELSE LET a == b.columns[i]
         IN  IF len(h[a]) # current_rows_len
             THEN [heap |-> h, f |-> f,
                   res |-> Panic("assert_eq col.len current_rows_len")]
             ELSE LET r == retain_by_index(h[a], f)
                      h2 == [h EXCEPT ![a] = r.col]
                  IN  IF new_rows = None
                      THEN RetainColumnsLoop(h2, b, r.f, current_rows_len,
                                             i + 1, Some(len(r.col)))
                      ELSE IF len(r.col) # new_rows[1]
                      THEN [heap |-> h2, f |-> r.f,
                            res |-> Panic("assert_eq col.len rows")]
                      ELSE RetainColumnsLoop(h2, b, r.f, current_rows_len,
                                             i + 1, new_rows)

\* retain_by_index that asks the predicate about index 0 before it looks
\* at the number of rows.
rows_retain_by_index_probing(h, b, f) ==
    LET c == PredCall(f, 0)
    IN  IF rows_len(h, b) = 0
        THEN [heap |-> h, res |-> Ok, f |-> c.f]
        ELSE RetainColumnsLoop(h, b, c.f, rows_len(h, b), 1, None)

\* BatchRows::retain_by_index
rows_retain_by_index(h, b, f) ==
    IF rows_len(h, b) = 0
    THEN [heap |-> h, res |-> Ok, f |-> f]
    ELSE RetainColumnsLoop(h, b, f, rows_len(h, b), 1, None)

\* A clone that shares the column's allocation with the original.
CloneColumnAtShared(h, a) == [heap |-> h, addr |-> a]

\* Clone of one column of a batch into a fresh allocation.
CloneColumnAt(h, a) ==
    LET n == Alloc(h)
    IN  [heap |-> [h EXCEPT ![n] = clone_column(h[a])], addr |-> n]

\* The clone of a batch that leaves the error slot of the copy empty.
RECURSIVE CloneColumnsWithoutError(_, _, _, _)
CloneColumnsWithoutError(h, b, i, columns) ==
    IF i > Len(b.columns)
    THEN [heap |-> h,
          rows |-> [live |-> TRUE, columns |-> columns, some_error |-> None]]
    ELSE LET c == CloneColumnAt(h, b.columns[i])
         IN  CloneColumnsWithoutError(c.heap, b, i + 1,
                                      Append(columns, c.addr))

\* impl Clone for BatchRows: Vec<LazyBatchColumn>::clone, then some_error.
RECURSIVE CloneColumns(_, _, _, _)
CloneColumns(h, b, i, columns) ==
    IF i > Len(b.columns)
    THEN [heap |-> h,
          rows |-> [live |-> TRUE, columns |-> columns,
                    some_error |-> b.some_error]]
    ELSE LET c == CloneColumnAt(h, b.columns[i])
         IN  CloneColumns(c.heap, b, i + 1, Append(columns, c.addr))

rows_clone(h, b) == CloneColumns(h, b, 1, <<>>)

---------------------------------------------------------------------------
(* Inputs. *)

\* Row template k cut to n cells: column i gets cell k + i - 1 of
\* CellInputs (cyclically), so every column sees every kind of cell.
RawRow(k, n) ==
    [i \in 1..n |-> CellInputs[((k + i - 2) % Len(CellInputs)) + 1]]

\* The predicates retain_by_index is called with on n rows.
PredInputs(n, stateful) ==
    IndexPreds(n) \cup (IF stateful THEN StatefulPreds(n) ELSE {})

\* The largest number of columns a batch driven with inputs in has.
MaxColsOf(in) ==
    CHOOSE n \in in.column_counts : \A m \in in.column_counts : m <= n

\* The rows pushed: of every template, with as many values as the batch
\* has columns, or fewer, or more.
RowInputs(in) ==
    {RawRow(k, n) : k \in 1..Len(CellInputs), n \in 0..MaxColsOf(in)}

\* What one owner alone is driven with: every schema for its column and
\* the batch schemas for the columns of its batch, index predicates
\* and stateful ones, with and without a capacity hint.
MainInputs ==
    [max_rows |-> MaxRows, schemas |-> Schemas,
     batch_schemas |-> BatchSchemas, stateful |-> TRUE,
     hints |-> {0, MaxRows}, column_counts |-> ColumnCounts]

\* What an original and its clone are driven with.
CloneInputs ==
    [max_rows |-> MaxCloneRows,
     schemas |-> { ColumnInfo("Long", TRUE, FALSE, 1),
                   ColumnInfo("Long", FALSE, TRUE, 2) },
     batch_schemas |-> { ColumnInfo("Long", TRUE, FALSE, 1),
                         ColumnInfo("Long", FALSE, TRUE, 2) },
     stateful |-> FALSE,
     hints |-> {0}, column_counts |-> ColumnCounts \ {0}]

\* What a batch of three columns is driven with, so that retain_by_index
\* can fail at a column that is not the last.
WideInputs ==
    [max_rows |-> MaxWideRows,
     schemas |-> { ColumnInfo("Long", FALSE, FALSE, 1) },
     batch_schemas |-> { ColumnInfo("Long", FALSE, FALSE, 1) },
     stateful |-> TRUE,
     hints |-> {0}, column_counts |-> {WideColumns}]

\* What an original and its clone are driven with when the caller may
\* record an error in either: batches of two columns, under a schema that
\* fails on a missing value.
ErrorInputs ==
    [max_rows |-> MaxErrorRows,
     schemas |-> { ColumnInfo("Long", FALSE, TRUE, 2) },
     batch_schemas |-> { ColumnInfo("Long", FALSE, TRUE, 2) },
     stateful |-> FALSE,
     hints |-> {0}, column_counts |-> {MaxCols}]

Halted == last.res.panic # ""

\* The record of a call: the operation, the object it was made on, its
\* column index and argument (a predicate as the call left it, with the
\* calls made on it), the column that decode, truncate or clear was called
\* on as it was before the call, what the call returned, and the
\* invocations of the decode primitive it made, in order.
NoArg == <<>>

Call(op, o, idx, arg, before, res) ==
    [op |-> op, obj |-> o, idx |-> idx, arg |-> arg, before |-> before,
     res |-> res, calls |-> <<>>]

\* The record of a decode call that made the invocations calls.
DecodeCall(op, o, idx, arg, before, res, calls) ==
    [Call(op, o, idx, arg, before, res) EXCEPT !.calls = calls]

---------------------------------------------------------------------------
(* The state after construction: one batch from BatchRows::raw, or one     *)
(* column from LazyBatchColumn::raw_with_capacity.                         *)

EmptyHeap == [a \in Addrs |-> Free]

InitBatch(in) ==
    \E columns_count \in in.column_counts, capacity_hint \in in.hints :
        LET r == raw(EmptyHeap, columns_count, capacity_hint)
        IN  /\ heap = r.heap
            /\ batch = [o \in Objects |-> IF o = 1 THEN r.rows ELSE NoBatch]
            /\ column = [o \in Objects |-> 0]
            /\ last = Call("raw", 1, 0, capacity_hint, Free, Ok)

InitColumn(in) ==
    \E capacity_hint \in in.hints :
        /\ heap = [EmptyHeap EXCEPT ![1] = raw_with_capacity(capacity_hint)]
        /\ batch = [o \in Objects |-> NoBatch]
        /\ column = [o \in Objects |-> IF o = 1 THEN 1 ELSE 0]
        /\ last = Call("raw_with_capacity", 1, 0, capacity_hint, Free, Ok)

Init == InitBatch(MainInputs) \/ InitColumn(MainInputs)

---------------------------------------------------------------------------
(* Operations on the batch owned as object o. *)

PushRawRow(o, in) ==
    /\ ~Halted
    /\ batch[o].live
    /\ rows_len(heap, batch[o]) < in.max_rows
    /\ \E raw_row \in RowInputs(in) :
        LET r == push_raw_row(heap, batch[o], raw_row)
        IN  /\ heap' = r.heap
            /\ last' = Call("push_raw_row", o, 0, raw_row, Free, r.res)
    /\ UNCHANGED <<batch, column>>

\* ensure_column_decoded that records the error it returns in the batch's
\* error slot.
EnsureColumnDecodedLatching(o, in) ==
    /\ ~Halted
    /\ batch[o].live
    /\ \E column_index \in 0..(MaxColsOf(in) - 1),
          column_info \in in.batch_schemas :
        LET r == ensure_column_decoded(heap, batch[o], column_index,
                                       column_info)
        IN  /\ heap' = r.heap
            /\ batch' = IF r.res.err # NoError
                        THEN [batch EXCEPT ![o].some_error = Some(r.res.err)]
                        ELSE batch
            /\ last' = DecodeCall("ensure_column_decoded", o,
                             column_index, column_info,
                             IF column_index < columns_len(batch[o])
                             THEN heap[batch[o].columns[column_index + 1]]
                             ELSE Free,
                             r.res, r.calls)
    /\ UNCHANGED column

EnsureColumnDecoded(o, in) ==
    /\ ~Halted
    /\ batch[o].live
    /\ \E column_index \in 0..(MaxColsOf(in) - 1),
          column_info \in in.batch_schemas :
        LET r == ensure_column_decoded(heap, batch[o], column_index,
                                       column_info)
        IN  /\ heap' = r.heap
            /\ last' = DecodeCall("ensure_column_decoded", o,
                             column_index, column_info,
                             IF column_index < columns_len(batch[o])
                             THEN heap[batch[o].columns[column_index + 1]]
                             ELSE Free,
                             r.res, r.calls)
    /\ UNCHANGED <<batch, column>>

\* The caller records a data error in the batch's error slot.
SetError(o) ==
    /\ ~Halted
    /\ batch[o].live
    /\ batch[o].some_error = None
    /\ batch' = [batch EXCEPT ![o].some_error = Some(DataError)]
    /\ last' = Call("set_error", o, 0, DataError, Free, Ok)
    /\ UNCHANGED <<heap, column>>

RetainByIndex(o, in) ==
    /\ ~Halted
    /\ batch[o].live
    /\ \E f \in PredInputs(rows_len(heap, batch[o]), in.stateful) :
        LET r == rows_retain_by_index(heap, batch[o], f)
        IN  /\ heap' = r.heap
            /\ last' = Call("retain_by_index", o, 0, r.f, Free, r.res)
    /\ UNCHANGED <<batch, column>>

CloneBatch(src, dst) ==
    /\ ~Halted
    /\ batch[src].live
    /\ ~batch[dst].live
    /\ LET r == rows_clone(heap, batch[src])
       IN  /\ heap' = r.heap
           /\ batch' = [batch EXCEPT ![dst] = r.rows]
    /\ last' = Call("clone", dst, 0, NoArg, Free, Ok)
    /\ UNCHANGED column

---------------------------------------------------------------------------
(* Operations on the column owned directly as object o. *)

ColumnPushRaw(o, in) ==
    /\ ~Halted
    /\ column[o] # 0
    /\ len(heap[column[o]]) < in.max_rows
    /\ \E k \in 1..Len(CellInputs) :
        LET r == push_raw(heap[column[o]], CellInputs[k])
        IN  /\ heap' = [heap EXCEPT ![column[o]] = r.col]
            /\ last' = Call("push_raw", o, 0, CellInputs[k], Free, r.res)
    /\ UNCHANGED <<batch, column>>

ColumnDecode(o, in) ==
    /\ ~Halted
    /\ column[o] # 0
    /\ \E column_info \in in.schemas :
        LET r == decode(heap[column[o]], column_info)
        IN  /\ heap' = [heap EXCEPT ![column[o]] = r.col]
            /\ last' = DecodeCall("decode", o, 0, column_info,
                                   heap[column[o]], r.res, r.calls)
    /\ UNCHANGED <<batch, column>>

ColumnTruncate(o, in) ==
    /\ ~Halted
    /\ column[o] # 0
    /\ \E n \in 0..in.max_rows :
        /\ heap' = [heap EXCEPT ![column[o]] = truncate(heap[column[o]], n)]
        /\ last' = Call("truncate", o, 0, n, heap[column[o]], Ok)
    /\ UNCHANGED <<batch, column>>

ColumnClear(o) ==
    /\ ~Halted
    /\ column[o] # 0
    /\ heap' = [heap EXCEPT ![column[o]] = clear(heap[column[o]])]
    /\ last' = Call("clear", o, 0, NoArg, heap[column[o]], Ok)
    /\ UNCHANGED <<batch, column>>

ColumnRetainByIndex(o) ==
    /\ ~Halted
    /\ column[o] # 0
    /\ \E f \in PredInputs(len(heap[column[o]]), FALSE) :
        LET r == retain_by_index(heap[column[o]], f)
        IN  /\ heap' = [heap EXCEPT ![column[o]] = r.col]
            /\ last' = Call("column_retain_by_index", o, 0, r.f, Free, Ok)
    /\ UNCHANGED <<batch, column>>

ColumnGetRaw(o) ==
    /\ ~Halted
    /\ column[o] # 0
    /\ last' = Call("get_raw", o, 0, NoArg, Free, get_raw(heap[column[o]]).res)
    /\ UNCHANGED <<heap, batch, column>>

ColumnGetDecoded(o) ==
    /\ ~Halted
    /\ column[o] # 0
    /\ last' = Call("get_decoded", o, 0, NoArg, Free,
                     get_decoded(heap[column[o]]).res)
    /\ UNCHANGED <<heap, batch, column>>

ColumnClone(src, dst) ==
    /\ ~Halted
    /\ column[src] # 0
    /\ column[dst] = 0
    /\ LET c == CloneColumnAt(heap, column[src])
       IN  /\ heap' = c.heap
           /\ column' = [column EXCEPT ![dst] = c.addr]
    /\ last' = Call("column_clone", dst, 0, NoArg, Free, Ok)
    /\ UNCHANGED batch

---------------------------------------------------------------------------
(* One owner, no copies. *)

Next ==
    \/ PushRawRow(1, MainInputs)
    \/ EnsureColumnDecoded(1, MainInputs)
    \/ RetainByIndex(1, MainInputs)
    \/ ColumnPushRaw(1, MainInputs)
    \/ ColumnDecode(1, MainInputs)
    \/ ColumnTruncate(1, MainInputs)
    \/ ColumnClear(1)
    \/ ColumnRetainByIndex(1)
    \/ ColumnGetRaw(1)
    \/ ColumnGetDecoded(1)

Spec == Init /\ [][Next]_vars

---------------------------------------------------------------------------
(* One owner of a batch of three columns, or of a column. *)

WideInit == InitBatch(WideInputs) \/ InitColumn(WideInputs)

WideNext ==
    \/ PushRawRow(1, WideInputs)
    \/ EnsureColumnDecoded(1, WideInputs)
    \/ RetainByIndex(1, WideInputs)
    \/ ColumnPushRaw(1, WideInputs)
    \/ ColumnDecode(1, WideInputs)
    \/ ColumnTruncate(1, WideInputs)
    \/ ColumnClear(1)
    \/ ColumnRetainByIndex(1)
    \/ ColumnGetRaw(1)
    \/ ColumnGetDecoded(1)

WideSpec == WideInit /\ [][WideNext]_vars

---------------------------------------------------------------------------
(* Two owners: object 2 is created by cloning object 1, and both are then  *)
(* used independently.                                                     *)

CloneInit == InitBatch(CloneInputs) \/ InitColumn(CloneInputs)

CloneNext ==
    \/ CloneBatch(1, 2)
    \/ ColumnClone(1, 2)
    \/ \E o \in Objects :
        \/ PushRawRow(o, CloneInputs)
        \/ EnsureColumnDecoded(o, CloneInputs)
        \/ RetainByIndex(o, CloneInputs)
        \/ ColumnPushRaw(o, CloneInputs)
        \/ ColumnDecode(o, CloneInputs)
        \/ ColumnTruncate(o, CloneInputs)
        \/ ColumnClear(o)
        \/ ColumnRetainByIndex(o)
        \/ ColumnGetRaw(o)
        \/ ColumnGetDecoded(o)

CloneSpec == CloneInit /\ [][CloneNext]_vars

---------------------------------------------------------------------------
(* Two owners as above, whose callers may record an error in the batch.    *)

ErrorInit == InitBatch(ErrorInputs) \/ InitColumn(ErrorInputs)

ErrorNext ==
    \/ CloneBatch(1, 2)
    \/ ColumnClone(1, 2)
    \/ \E o \in Objects :
        \/ SetError(o)
        \/ PushRawRow(o, ErrorInputs)
        \/ EnsureColumnDecoded(o, ErrorInputs)
        \/ RetainByIndex(o, ErrorInputs)
        \/ ColumnPushRaw(o, ErrorInputs)
        \/ ColumnDecode(o, ErrorInputs)
        \/ ColumnTruncate(o, ErrorInputs)
        \/ ColumnClear(o)
        \/ ColumnRetainByIndex(o)
        \/ ColumnGetRaw(o)
        \/ ColumnGetDecoded(o)

ErrorSpec == ErrorInit /\ [][ErrorNext]_vars

---------------------------------------------------------------------------
(* Views of the state used by the properties. *)

\* The columns of the batch owned as object o, by value.
ColumnsOf(o) ==
    [i \in 1..Len(batch[o].columns) |-> heap[batch[o].columns[i]]]

\* The last call was a decode of an existing column (through the column
\* or through the batch).
IsDecodeCall ==
    /\ last.op \in {"decode", "ensure_column_decoded"}
    /\ last.before # Free

\* The column the last decode call was made on, as it is now.
DecodeTarget ==
    IF last.op = "decode"
    THEN heap[column[last.obj]]
    ELSE heap[batch[last.obj].columns[last.idx + 1]]

\* Positions of the empty cells of a raw cell sequence.
EmptyCells(cells) == {i \in 1..Len(cells) : Len(cells[i]) = 0}

---------------------------------------------------------------------------
(* Properties. *)

\* C1: after any sequence of completed push_raw_row, ensure_column_decoded
\* (successful or failed with a data error) and retain_by_index calls, all
\* columns of the batch have the same row count, equal to rows_len(); the
\* length assertions of ensure_column_decoded and at the start of each
\* column's pass of retain_by_index never fire.
C1_EqualRowCounts ==
    /\ (batch[1].live /\ ~Halted) =>
            \A i \in 1..Len(batch[1].columns) :
                len(ColumnsOf(1)[i]) = rows_len(heap, batch[1])
    /\ last.res.panic \notin {"assert_eq col.len number_of_rows",
                              "assert_eq col.len current_rows_len"}

\* A two-column batch with one Decoded and one Raw column, left with one
\* row by a completed retain_by_index that removed the other.
C1_Witness ==
    /\ batch[1].live
    /\ Len(batch[1].columns) = 2
    /\ last.op = "retain_by_index"
    /\ last.res.ok
    /\ Len(last.arg.mask) = 2
    /\ rows_len(heap, batch[1]) = 1
    /\ is_decoded(ColumnsOf(1)[1])
    /\ is_raw(ColumnsOf(1)[2])

\* C2: a Decoded column stays Decoded under every operation of the column
\* and of the batch; the only change of state is Raw -> Decoded, and only
\* a successful decode makes it.
C2_DecodedIsForever ==
    [][\A a \in Addrs :
          /\ is_decoded(heap[a]) => is_decoded(heap'[a])
          /\ (is_raw(heap[a]) /\ ~is_raw(heap'[a])) =>
                /\ is_decoded(heap'[a])
                /\ last'.op \in {"decode", "ensure_column_decoded"}
                /\ last'.res.ok]_vars

\* A Decoded column that a later truncate, clear or retain_by_index has
\* emptied, and that is still Decoded.
C2_Witness ==
    /\ last.op \in {"truncate", "clear", "column_retain_by_index",
                    "retain_by_index"}
    /\ \E a \in Addrs : is_decoded(heap[a]) /\ len(heap[a]) = 0

\* The evaluation type the schema of the last decode call maps to.
DecodeEvalType == EvalTypeTryFrom(last.arg.tp)

\* Whether the decode primitive accepts raw cell i of the column the last
\* decode call was made on.
CellDecodes(i) ==
    DecodeDatum(last.before.v.data[i], DecodeEvalType.eval_type).ok

\* C3: a decode that fails on a Raw column returns the error and leaves
\* the column Raw with the same cells in the same order; through
\* ensure_column_decoded, is_column_decoded(index) stays false and
\* rows_len() is unchanged.  A decode leaves either the untouched Raw
\* column or a Decoded column with a value for every row, never less.
C3_FailedDecodeLeavesRaw ==
    (IsDecodeCall /\ is_raw(last.before)) =>
        /\ last.res.panic = ""
        /\ ~last.res.ok =>
              /\ last.res.err.kind # "None"
              /\ DecodeTarget = last.before
              /\ last.op = "ensure_column_decoded" =>
                    /\ ~is_column_decoded(heap, batch[last.obj], last.idx)
                    /\ rows_len(heap, batch[last.obj]) = len(last.before)
        /\ last.res.ok =>
              /\ is_decoded(DecodeTarget)
              /\ len(DecodeTarget) = len(last.before)

\* ensure_column_decoded has failed on the second cell of a column whose
\* first cell had already been decoded.
C3_Witness ==
    /\ last.op = "ensure_column_decoded"
    /\ last.before # Free
    /\ ~last.res.ok
    /\ is_raw(last.before)
    /\ len(last.before) = 2
    /\ DecodeEvalType.ok
    /\ CellDecodes(1)
    /\ Len(last.before.v.data[1]) > 0

\* C4: decode of an already Decoded column returns success and leaves its
\* state, length and values as they were; a second ensure_column_decoded
\* of a column gives the decoded view the first one gave.
C4_DecodeIdempotent ==
    (IsDecodeCall /\ is_decoded(last.before)) =>
        /\ last.res = Ok
        /\ DecodeTarget = last.before

\* ensure_column_decoded called again on a Decoded column of two rows,
\* this time with a schema under which a Raw column could not be decoded.
C4_Witness ==
    /\ last.op = "ensure_column_decoded"
    /\ last.before # Free
    /\ is_decoded(last.before)
    /\ len(last.before) = 2
    /\ ~DecodeEvalType.ok

\* C5: a successful decode of a Raw column whose cells are all non-empty
\* gives a Decoded column of the schema's evaluation type with one value
\* per raw cell, the i-th being what the decode primitive makes of the
\* i-th cell; and decode succeeds when the primitive accepts every cell.
C5_RoundTrip ==
    (IsDecodeCall /\ is_raw(last.before)
        /\ EmptyCells(last.before.v.data) = {}) =>
        /\ last.res.ok =>
              /\ is_decoded(DecodeTarget)
              /\ DecodeEvalType.ok
              /\ DecodeTarget.v.eval_type = DecodeEvalType.eval_type
              /\ len(DecodeTarget) = len(last.before)
              /\ \A i \in 1..len(last.before) :
                    /\ CellDecodes(i)
                    /\ DecodeTarget.v.data[i] =
                          DecodeDatum(last.before.v.data[i],
                                      DecodeEvalType.eval_type).value
        /\ (DecodeEvalType.ok /\ \A i \in 1..len(last.before) : CellDecodes(i))
              => last.res.ok

\* A column of two non-empty cells, an explicit NULL and a 1, decoded.
C5_Witness ==
    /\ IsDecodeCall
    /\ is_raw(last.before)
    /\ last.res.ok
    /\ len(last.before) = 2
    /\ EmptyCells(last.before.v.data) = {}
    /\ DecodeTarget.v.data = <<None, Some(1)>>

\* C6: when the schema declares a default value, decode takes the value of
\* every empty cell from the default's bytes, NOT NULL flag or not: the
\* result there is the decoded default (not NULL), and decode never fails
\* with the NOT NULL error.
C6_DefaultSubstitution ==
    (IsDecodeCall /\ is_raw(last.before) /\ last.arg.has_default_val) =>
        /\ last.res.err.kind # "NotNull"
        /\ last.res.ok =>
              \A i \in EmptyCells(last.before.v.data) :
                  /\ DecodeDatum(last.arg.default_val,
                                 DecodeEvalType.eval_type).ok
                  /\ DecodeTarget.v.data[i] =
                        DecodeDatum(last.arg.default_val,
                                    DecodeEvalType.eval_type).value
                  /\ DecodeTarget.v.data[i] # None

\* A column with an empty cell decoded under a schema that declares a
\* default value and is flagged NOT NULL.
C6_Witness ==
    /\ IsDecodeCall
    /\ is_raw(last.before)
    /\ last.res.ok
    /\ last.arg.has_default_val
    /\ last.arg.flag_not_null
    /\ EmptyCells(last.before.v.data) # {}
    /\ len(last.before) = 2

\* C7: under a schema with no default value and without the NOT NULL flag,
\* an empty cell decodes to NULL at its row, and decode does not fail
\* because of it: it succeeds whenever the type tag has an evaluation type
\* and the primitive accepts every non-empty cell.
C7_NullSubstitution ==
    (IsDecodeCall /\ is_raw(last.before)
        /\ ~last.arg.has_default_val /\ ~last.arg.flag_not_null) =>
        /\ last.res.err.kind # "NotNull"
        /\ last.res.ok =>
              \A i \in EmptyCells(last.before.v.data) :
                  DecodeTarget.v.data[i] = None
        /\ (/\ DecodeEvalType.ok
            /\ \A i \in 1..len(last.before) :
                  i \notin EmptyCells(last.before.v.data) => CellDecodes(i))
              => last.res.ok

\* A column holding an empty cell and a 1, decoded under a nullable schema
\* without default.
C7_Witness ==
    /\ IsDecodeCall
    /\ is_raw(last.before)
    /\ last.res.ok
    /\ ~last.arg.has_default_val
    /\ ~last.arg.flag_not_null
    /\ last.before.v.data = << <<>>, <<VAR_UINT_FLAG, 1>> >>
    /\ DecodeTarget.v.data = <<None, Some(1)>>

\* The first empty cell of the column the last decode call was made on.
FirstEmptyCell ==
    CHOOSE i \in EmptyCells(last.before.v.data) :
        \A j \in EmptyCells(last.before.v.data) : i <= j

\* The decode primitive was run on a cell before the first empty one and
\* rejected it.
EarlierCellFailed ==
    /\ DecodeEvalType.ok
    /\ \E j \in 1..(FirstEmptyCell - 1) : ~CellDecodes(j)

\* The last call was a decode of a Raw column holding an empty cell, under
\* a schema with no default value and the NOT NULL flag.
NotNullCase ==
    /\ IsDecodeCall
    /\ is_raw(last.before)
    /\ EmptyCells(last.before.v.data) # {}
    /\ ~last.arg.has_default_val
    /\ last.arg.flag_not_null

\* The last decode call failed with the NOT NULL error naming the
\* schema's column id, and left the column as it was.
FailedWithNotNull ==
    /\ last.res = Err([kind |-> "NotNull",
                       column_id |-> last.arg.column_id])
    /\ DecodeTarget = last.before

\* C8 as stated: in the NOT NULL case decode fails with the error that
\* identifies the column id unless an earlier cell already failed to
\* decode, and the column stays Raw and unchanged; a column with no empty
\* cell never produces this error.
C8_AsStated ==
    /\ (NotNullCase /\ ~EarlierCellFailed) => FailedWithNotNull
    /\ NotNullCase => (~last.res.ok /\ DecodeTarget = last.before)
    /\ (IsDecodeCall /\ last.res.err.kind = "NotNull") => NotNullCase

\* C8, amended: in the NOT NULL case decode always fails and the column
\* stays Raw and unchanged; the error is the NOT NULL error identifying
\* the column id provided the schema's type tag maps to an evaluation
\* type and no earlier cell already failed to decode; a column with no
\* empty cell never produces this error.
C8_NotNullViolation ==
    /\ (NotNullCase /\ DecodeEvalType.ok /\ ~EarlierCellFailed)
          => FailedWithNotNull
    /\ NotNullCase => (~last.res.ok /\ DecodeTarget = last.before)
    /\ (IsDecodeCall /\ last.res.err.kind = "NotNull") => NotNullCase

\* decode has failed with the NOT NULL error at the second cell of a
\* column, after decoding the first.
C8_Witness ==
    /\ NotNullCase
    /\ FailedWithNotNull
    /\ len(last.before) = 2
    /\ FirstEmptyCell = 2

\* The rows of data at the positions where mask is true, in order.
RowsKept(data, mask) ==
    LET K == {i \in 1..Len(data) : mask[i]}
    IN  [k \in 1..Cardinality(K) |->
            data[CHOOSE i \in K : Cardinality({j \in K : j <= i}) = k]]

\* C9: retain_by_index of the batch with a predicate of the row index
\* alone returns normally and leaves every column, Raw or Decoded, in its
\* state and with exactly the rows at the indices the predicate accepts,
\* in their order; so every column keeps the same rows and has as many
\* rows as there are accepted indices.
C9_FilterConsistency ==
    [][(last'.op = "retain_by_index" /\ last'.arg.kind = "index") =>
          /\ last'.res = Ok
          /\ batch' = batch
          /\ \A i \in 1..Len(batch[1].columns) :
                LET old == heap[batch[1].columns[i]]
                    new == heap'[batch[1].columns[i]]
                IN  /\ new.tag = old.tag
                    /\ new.v.data = RowsKept(old.v.data, last'.arg.mask)
                    /\ len(new) =
                          Cardinality({j \in 1..rows_len(heap, batch[1]) :
                                          last'.arg.mask[j]})]_vars

\* A batch with a Decoded and a Raw column after retain_by_index dropped
\* the first of its two rows and kept the second.
C9_Witness ==
    /\ last.op = "retain_by_index"
    /\ last.res.ok
    /\ last.arg.kind = "index"
    /\ last.arg.mask = <<FALSE, TRUE>>
    /\ Len(batch[1].columns) = 2
    /\ is_decoded(ColumnsOf(1)[1])
    /\ is_raw(ColumnsOf(1)[2])
    /\ rows_len(heap, batch[1]) = 1

\* What object o holds, by value: its batch with the columns' contents,
\* or its column.
ViewOf(o) ==
    [rows |-> batch[o], columns |-> ColumnsOf(o),
     column |-> IF column[o] = 0 THEN Free ELSE heap[column[o]]]

\* C10: an operation on a batch or column changes nothing of the other
\* object, original or clone: its column states, row count and contents
\* stay as they were; and clone itself leaves the original unchanged.
C10_CloneIndependence ==
    [][\A o \in Objects : last'.obj # o => ViewOf(o)' = ViewOf(o)]_vars

\* An original and its clone that have gone different ways: the clone has
\* filtered its row away and decoded a column the original still holds
\* raw, with its row.
C10_Witness ==
    /\ batch[1].live
    /\ batch[2].live
    /\ Len(batch[1].columns) = 2
    /\ is_raw(ColumnsOf(1)[1])
    /\ is_decoded(ColumnsOf(2)[1])
    /\ rows_len(heap, batch[1]) = 1
    /\ rows_len(heap, batch[2]) = 0

---------------------------------------------------------------------------
(* push_raw_row and push_raw. *)

\* Every column of the batch of object o is Raw.
AllRaw(o) ==
    \A i \in 1..Len(batch[o].columns) : is_raw(ColumnsOf(o)[i])

\* The step is a push_raw_row on the batch of object o, of as many
\* values as the batch has columns, all of them Raw.
PushOnRawBatch(o) ==
    /\ last'.op = "push_raw_row"
    /\ last'.obj = o
    /\ AllRaw(o)
    /\ Len(last'.arg) = columns_len(batch[o])

\* What such a push does to the columns: it returns normally, every
\* column stays Raw and gets values[i] as its new last cell after the
\* cells it had, and the batch has the columns it had.
PushAppendsCells(o) ==
    /\ last'.res = Ok
    /\ batch' = batch
    /\ columns_len(batch'[o]) = columns_len(batch[o])
    /\ \A i \in 1..Len(batch[o].columns) :
        /\ is_raw(ColumnsOf(o)'[i])
        /\ ColumnsOf(o)'[i].v.data =
               Append(ColumnsOf(o)[i].v.data, last'.arg[i])

\* C11 as stated: such a push appends values[i] to column i for every i
\* and increases rows_len() by exactly 1, whatever the number of columns.
C11_AsStated ==
    [][\A o \in Objects :
          PushOnRawBatch(o) =>
              /\ PushAppendsCells(o)
              /\ rows_len(heap', batch'[o]) =
                     rows_len(heap, batch[o]) + 1]_vars

\* C11: push_raw_row on a batch whose columns are all Raw, given exactly
\* columns_len() values, appends values[i] as the new last cell of column
\* i for every i (an empty value is stored as an empty cell, not skipped),
\* leaves the rows stored before and columns_len() unchanged, and
\* increases rows_len() by exactly 1 when the batch has at least one
\* column; with zero columns rows_len() stays 0.
C11_PushRowAppends ==
    [][\A o \in Objects :
          PushOnRawBatch(o) =>
              /\ PushAppendsCells(o)
              /\ rows_len(heap', batch'[o]) =
                     IF columns_len(batch[o]) = 0
                     THEN 0
                     ELSE rows_len(heap, batch[o]) + 1]_vars

\* A second row has been pushed into a batch of two Raw columns, its
\* first value of zero length: the first column ends with an empty cell.
C11_Witness ==
    /\ last.op = "push_raw_row"
    /\ last.res = Ok
    /\ Len(batch[1].columns) = 2
    /\ AllRaw(1)
    /\ rows_len(heap, batch[1]) = 2
    /\ last.arg[1] = <<>>
    /\ ColumnsOf(1)[1].v.data[2] = <<>>
    /\ ColumnsOf(1)[2].v.data[2] = last.arg[2]

\* The outcome of a call is a fatal failure: a panic, which is neither a
\* normal return nor an error value.
Fatal(res) == /\ res.panic # ""
              /\ ~res.ok
              /\ res.err = NoError

\* C12: push_raw_row with a number of values different from columns_len()
\* is a fatal failure (not an error value, not a truncated or padded
\* push), raised before any column is modified.
C12_ArityMismatchIsFatal ==
    [][\A o \in Objects :
          ( /\ last'.op = "push_raw_row"
            /\ last'.obj = o
            /\ Len(last'.arg) # columns_len(batch[o]) )
          => /\ Fatal(last'.res)
             /\ last'.res = Panic("assert_eq columns_len raw_row.len")
             /\ heap' = heap
             /\ batch' = batch]_vars

\* One value has been pushed into a batch of two columns that hold a row:
\* the call failed and both columns still hold that one row.
C12_Witness ==
    /\ last.op = "push_raw_row"
    /\ Len(last.arg) = 1
    /\ Fatal(last.res)
    /\ Len(batch[1].columns) = 2
    /\ len(ColumnsOf(1)[1]) = 1
    /\ len(ColumnsOf(1)[2]) = 1

\* The step is a push into the batch of object o (push_raw_row) or into
\* its column (push_raw).
IsPushCall(o) ==
    /\ last'.obj = o
    /\ last'.op \in {"push_raw_row", "push_raw"}

\* C13: push_raw_row on a batch with a Decoded column is a fatal failure,
\* push_raw on a Decoded column is a fatal failure, and no push changes a
\* Decoded column: no raw cell is ever appended to one.
C13_PushOnDecodedIsFatal ==
    [][\A o \in Objects :
          /\ ( /\ IsPushCall(o)
               /\ last'.op = "push_raw_row"
               /\ ~AllRaw(o) ) => Fatal(last'.res)
          /\ ( /\ IsPushCall(o)
               /\ last'.op = "push_raw"
               /\ is_decoded(heap[column[o]]) )
             => /\ Fatal(last'.res)
                /\ last'.res = Panic("LazyBatchColumn is already decoded")
          /\ IsPushCall(o) =>
                \A a \in Addrs :
                    heap[a].tag = "Decoded" => heap'[a] = heap[a]]_vars

\* A row of two values has been pushed into a batch whose second column
\* is Decoded and holds a row: the call failed at that column.
C13_Witness ==
    /\ last.op = "push_raw_row"
    /\ Len(last.arg) = 2
    /\ last.res = Panic("assert lazy_col.is_raw")
    /\ Len(batch[1].columns) = 2
    /\ is_raw(ColumnsOf(1)[1])
    /\ is_decoded(ColumnsOf(1)[2])
    /\ len(ColumnsOf(1)[2]) = 1

---------------------------------------------------------------------------
(* ensure_column_decoded, rows_len and rows_capacity. *)

\* C14: ensure_column_decoded(index, ...) changes at most the column at
\* index: every other column keeps its state, length and contents, and
\* rows_len() and columns_len() are what they were, whether the call
\* succeeds, returns an error or fails.
C14_EnsureDecodedFrame ==
    [][\A o \in Objects :
          (last'.op = "ensure_column_decoded" /\ last'.obj = o)
          => /\ batch' = batch
             /\ columns_len(batch'[o]) = columns_len(batch[o])
             /\ rows_len(heap', batch'[o]) = rows_len(heap, batch[o])
             /\ \A i \in 1..Len(batch[o].columns) :
                    i # last'.idx + 1 => ColumnsOf(o)'[i] = ColumnsOf(o)[i]
             /\ \A a \in Addrs :
                    (\A i \in 1..Len(batch[o].columns) :
                        i = last'.idx + 1 => batch[o].columns[i] # a)
                    => heap'[a] = heap[a]]_vars

\* The second of two columns holding two rows has been decoded; the first
\* is still Raw with its two rows.
C14_Witness ==
    /\ last.op = "ensure_column_decoded"
    /\ last.idx = 1
    /\ last.res = Ok
    /\ Len(batch[1].columns) = 2
    /\ is_raw(last.before)
    /\ is_decoded(ColumnsOf(1)[2])
    /\ is_raw(ColumnsOf(1)[1])
    /\ len(ColumnsOf(1)[1]) = 2

\* C15: in every reachable state rows_len() is the number of cells of the
\* first column when the batch has a column and 0 when it has none, also
\* after pushes of empty rows into a batch without columns; and
\* rows_capacity() is the first column's capacity, or 0, likewise.
C15_RowsLenIsFirstColumn ==
    \A o \in Objects :
        batch[o].live =>
            /\ rows_len(heap, batch[o]) =
                   IF batch[o].columns = <<>>
                   THEN 0
                   ELSE Len(ColumnsOf(o)[1].v.data)
            /\ rows_capacity(heap, batch[o]) =
                   IF batch[o].columns = <<>>
                   THEN 0
                   ELSE ColumnsOf(o)[1].v.cap

\* An empty row has been pushed into a batch without columns: the push
\* succeeded and the batch still reports no rows and no capacity.
C15_Witness ==
    /\ batch[1].live
    /\ batch[1].columns = <<>>
    /\ last.op = "push_raw_row"
    /\ last.arg = <<>>
    /\ last.res = Ok
    /\ rows_len(heap, batch[1]) = 0
    /\ rows_capacity(heap, batch[1]) = 0

---------------------------------------------------------------------------
(* retain_by_index. *)

\* C16: retain_by_index on a batch whose rows_len() is 0, with or without
\* columns, does nothing: the predicate is not called, and the columns,
\* their states and capacities (so rows_len(), columns_len() and
\* rows_capacity()) are what they were, whatever the predicate.
C16_RetainOnEmptyIsNoOp ==
    [][\A o \in Objects :
          ( /\ last'.op = "retain_by_index"
            /\ last'.obj = o
            /\ rows_len(heap, batch[o]) = 0 )
          => /\ last'.res = Ok
             /\ last'.arg.calls = 0
             /\ last'.arg.log = <<>>
             /\ heap' = heap
             /\ batch' = batch
             /\ rows_len(heap', batch'[o]) = 0
             /\ columns_len(batch'[o]) = columns_len(batch[o])
             /\ rows_capacity(heap', batch'[o]) =
                    rows_capacity(heap, batch[o])]_vars

\* retain_by_index with the always-false predicate has returned on a
\* batch of two columns without rows, the first Decoded, that has room
\* for rows.
C16_Witness ==
    /\ last.op = "retain_by_index"
    /\ last.res = Ok
    /\ last.arg.mask = <<FALSE>>
    /\ last.arg.calls = 0
    /\ Len(batch[1].columns) = 2
    /\ is_decoded(ColumnsOf(1)[1])
    /\ rows_len(heap, batch[1]) = 0
    /\ rows_capacity(heap, batch[1]) > 0

\* The answer predicate f gives to its k-th call (k from 0), made with
\* index idx.
Answer(f, k, idx) ==
    IF f.kind = "index"
    THEN f.mask[idx + 1]
    ELSE f.mask[(k % Len(f.mask)) + 1]

\* The number of rows predicate f keeps in the i-th column (i from 1) of
\* a batch of n rows, when it is asked about every row of every column
\* in turn.
KeptInColumn(f, i, n) ==
    Cardinality({idx \in 0..(n - 1) : Answer(f, (i - 1) * n + idx, idx)})

\* C17: when the predicate keeps in some column a number of rows other
\* than in the first, retain_by_index ends in the fatal failure of its
\* consistency assertion; it never returns normally with columns of
\* different lengths.
C17_InconsistentPredicateIsFatal ==
    [][\A o \in Objects :
          ( /\ last'.op = "retain_by_index"
            /\ last'.obj = o
            /\ rows_len(heap, batch[o]) > 0 )
          => LET n == rows_len(heap, batch[o])
             IN  /\ (\E i \in 1..Len(batch[o].columns) :
                        KeptInColumn(last'.arg, i, n) #
                            KeptInColumn(last'.arg, 1, n))
                    => /\ Fatal(last'.res)
                       /\ last'.res = Panic("assert_eq col.len rows")
                 /\ last'.res = Ok =>
                        \A i \in 1..Len(batch[o].columns) :
                            len(ColumnsOf(o)'[i]) = len(ColumnsOf(o)'[1])]_vars

\* retain_by_index with a stateful predicate has failed on a batch of two
\* columns: the predicate kept both rows of the first column and one of
\* the second.
C17_Witness ==
    /\ last.op = "retain_by_index"
    /\ last.arg.kind = "stateful"
    /\ last.res = Panic("assert_eq col.len rows")
    /\ Len(batch[1].columns) = 2
    /\ len(ColumnsOf(1)[1]) = 2
    /\ len(ColumnsOf(1)[2]) = 1

\* The indices 0, 1, ..., n-1 in order, k times over.
IndexRuns(k, n) == [j \in 1..(k * n) |-> (j - 1) % n]

\* The answers predicate f gives for the n rows of the i-th column it is
\* asked about (i from 1).
AnswersForColumn(f, i, n) ==
    [j \in 1..n |-> Answer(f, (i - 1) * n + j - 1, j - 1)]

\* The number of columns retain_by_index of a batch of c columns and n
\* rows filters with predicate f: all of them, or those up to the first
\* that keeps another number of rows than the first column.
ColumnsFiltered(f, c, n) ==
    LET D == {i \in 1..c : KeptInColumn(f, i, n) # KeptInColumn(f, 1, n)}
    IN  IF D = {} THEN c ELSE CHOOSE i \in D : \A j \in D : i <= j

\* The step is retain_by_index of the column of object o: the predicate
\* was called once per row, with the rows' positions before the call in
\* increasing order, and the rows it accepted are kept.
ColumnRetainCalls(o) ==
    ( /\ last'.op = "column_retain_by_index"
      /\ last'.obj = o )
    => LET n == len(heap[column[o]])
       IN  /\ last'.arg.calls = n
           /\ last'.arg.log = IndexRuns(1, n)
           /\ heap'[column[o]].v.data =
                  RowsKept(heap[column[o]].v.data,
                           AnswersForColumn(last'.arg, 1, n))

\* C18 as stated: retain_by_index of a column of n rows calls the
\* predicate exactly n times with 0, ..., n-1 in order, and
\* retain_by_index of a batch of n > 0 rows and c columns calls it exactly
\* n*c times, the indices restarting at 0 for each column.
C18_AsStated ==
    [][\A o \in Objects :
          /\ ColumnRetainCalls(o)
          /\ ( /\ last'.op = "retain_by_index"
               /\ last'.obj = o
               /\ rows_len(heap, batch[o]) > 0 )
             => LET n == rows_len(heap, batch[o])
                    c == columns_len(batch[o])
                IN  /\ last'.arg.calls = n * c
                    /\ last'.arg.log = IndexRuns(c, n)]_vars

\* C18: retain_by_index of a column of n rows calls the predicate exactly
\* n times with 0, ..., n-1 in order, the rows' positions before the call;
\* retain_by_index of a batch of n > 0 rows and c columns that returns
\* normally calls it exactly n*c times, the indices restarting at 0 for
\* each column and the columns taken in column order; one that fails at
\* the k-th column has called it n*k times in the same way and has not
\* touched the columns after the k-th.
C18_PredicateCallOrder ==
    [][\A o \in Objects :
          /\ ColumnRetainCalls(o)
          /\ ( /\ last'.op = "retain_by_index"
               /\ last'.obj = o
               /\ rows_len(heap, batch[o]) > 0 )
             => LET n == rows_len(heap, batch[o])
                    c == columns_len(batch[o])
                    k == ColumnsFiltered(last'.arg, c, n)
                IN  /\ last'.res = Ok => k = c
                    /\ last'.arg.calls = n * k
                    /\ last'.arg.log = IndexRuns(k, n)
                    /\ \A i \in 1..c :
                          ColumnsOf(o)'[i].v.data =
                              IF i <= k
                              THEN RowsKept(ColumnsOf(o)[i].v.data,
                                       AnswersForColumn(last'.arg, i, n))
                              ELSE ColumnsOf(o)[i].v.data]_vars

\* retain_by_index has failed at the second of three columns of two rows:
\* the predicate was called four times, with 0, 1, 0, 1, and the third
\* column still holds its two rows.
C18_Witness ==
    /\ last.op = "retain_by_index"
    /\ last.res = Panic("assert_eq col.len rows")
    /\ Len(batch[1].columns) = 3
    /\ last.arg.calls = 4
    /\ last.arg.log = <<0, 1, 0, 1>>
    /\ len(ColumnsOf(1)[1]) # len(ColumnsOf(1)[2])
    /\ len(ColumnsOf(1)[3]) = 2

---------------------------------------------------------------------------
(* truncate, clear and the accessors of the column. *)

Min(a, b) == IF a <= b THEN a ELSE b

\* C19: truncate(n) of a column, Raw or Decoded, leaves it in its state
\* with min(old len, n) rows, the first rows it had, unchanged and in
\* order, and never with more rows than before; clear() does what
\* truncate(0) does and leaves len() 0 and is_empty() true.
C19_TruncateShrinks ==
    /\ last.op = "truncate" =>
          LET old == last.before
              new == heap[column[last.obj]]
              m == Min(len(old), last.arg)
          IN  /\ new.tag = old.tag
              /\ len(new) = m
              /\ len(new) <= len(old)
              /\ new.v.data = SubSeq(old.v.data, 1, m)
              /\ capacity(new) = capacity(old)
    /\ last.op = "clear" =>
          LET old == last.before
              new == heap[column[last.obj]]
          IN  /\ new = truncate(old, 0)
              /\ new.tag = old.tag
              /\ len(new) = 0
              /\ is_empty(new)

\* A Decoded column of two rows has been truncated to one row.
C19_Witness ==
    /\ last.op = "truncate"
    /\ last.arg = 1
    /\ is_decoded(last.before)
    /\ len(last.before) = 2
    /\ is_decoded(heap[column[1]])
    /\ len(heap[column[1]]) = 1

\* The columns there are: those of the batches and the columns owned
\* directly.
LiveColumns == {a \in Addrs : heap[a].tag # "Free"}

\* C20: get_raw of a Decoded column and get_decoded of a Raw column end
\* in a fatal failure and return no data, while each returns the column's
\* vector in the matching state; is_raw() and is_decoded() are exact
\* complements on every column; and ensure_column_decoded never fails
\* this way: when it succeeds the column is Decoded and get_decoded
\* returns its vector.
C20_MismatchedAccessIsFatal ==
    /\ \A a \in LiveColumns :
          LET col == heap[a]
          IN  /\ is_raw(col) <=> ~is_decoded(col)
              /\ is_decoded(col) =>
                    /\ Fatal(get_raw(col).res)
                    /\ get_raw(col).value = None
                    /\ get_decoded(col) = [value |-> Some(col.v), res |-> Ok]
              /\ is_raw(col) =>
                    /\ Fatal(get_decoded(col).res)
                    /\ get_decoded(col).value = None
                    /\ get_raw(col) = [value |-> Some(col.v), res |-> Ok]
    /\ last.op = "get_raw" =>
          (Fatal(last.res) <=> is_decoded(heap[column[last.obj]]))
    /\ last.op = "get_decoded" =>
          (Fatal(last.res) <=> is_raw(heap[column[last.obj]]))
    /\ last.op = "ensure_column_decoded" =>
          /\ last.res.panic \notin {"LazyBatchColumn is not decoded",
                                     "LazyBatchColumn is already decoded"}
          /\ last.res.ok =>
                LET col == ColumnsOf(last.obj)[last.idx + 1]
                IN  /\ is_decoded(col)
                    /\ get_decoded(col).res = Ok

\* get_raw has been called on a Decoded column that holds a row, and
\* failed.
C20_Witness ==
    /\ last.op = "get_raw"
    /\ last.res = Panic("LazyBatchColumn is already decoded")
    /\ column[1] # 0
    /\ is_decoded(heap[column[1]])
    /\ len(heap[column[1]]) = 1

---------------------------------------------------------------------------
(* The error slot. *)

\* Batch b with its error slot emptied.
WithoutError(b) == [b EXCEPT !.some_error = None]

\* C21: the error slot is no lock: push_raw_row, ensure_column_decoded
\* and retain_by_index do on a batch whose error slot is set what they do
\* on the same batch with the slot empty; a row pushed into an all-Raw
\* batch with the slot set is appended; and a batch made by raw has an
\* empty slot.
C21_ErrorSlotIsNoLock ==
    /\ \A o \in Objects :
          (batch[o].live /\ batch[o].some_error # None) =>
             LET b == batch[o]
             IN  /\ \A raw_row \in RowInputs(ErrorInputs) :
                       push_raw_row(heap, b, raw_row) =
                           push_raw_row(heap, WithoutError(b), raw_row)
                 /\ \A column_index \in 0..(columns_len(b) - 1),
                       column_info \in ErrorInputs.batch_schemas :
                       ensure_column_decoded(heap, b, column_index,
                                             column_info) =
                           ensure_column_decoded(heap, WithoutError(b),
                                                 column_index, column_info)
                 /\ \A f \in PredInputs(rows_len(heap, b), TRUE) :
                       rows_retain_by_index(heap, b, f) =
                           rows_retain_by_index(heap, WithoutError(b), f)
    /\ ( /\ last.op = "push_raw_row"
         /\ batch[last.obj].some_error # None
         /\ Len(last.arg) = columns_len(batch[last.obj])
         /\ AllRaw(last.obj) )
       => /\ last.res = Ok
          /\ \A i \in 1..Len(last.arg) :
                LET data == ColumnsOf(last.obj)[i].v.data
                IN  /\ Len(data) > 0
                    /\ data[Len(data)] = last.arg[i]
    /\ last.op = "raw" => batch[last.obj].some_error = None

\* A row has been pushed into a batch of two Raw columns whose error slot
\* is set, and is its first row.
C21_Witness ==
    /\ last.op = "push_raw_row"
    /\ last.res = Ok
    /\ batch[1].some_error = Some(DataError)
    /\ Len(batch[1].columns) = 2
    /\ AllRaw(1)
    /\ rows_len(heap, batch[1]) = 1
    /\ ColumnsOf(1)[2].v.data[1] = last.arg[2]

\* Column copy is column col cloned: in the same state, with the same
\* length and capacity and, row by row, the same cells or values.
SameColumn(copy, col) ==
    /\ copy.tag = col.tag
    /\ is_raw(copy) = is_raw(col)
    /\ len(copy) = len(col)
    /\ capacity(copy) = capacity(col)
    /\ \A i \in 1..len(col) : copy.v.data[i] = col.v.data[i]
    /\ copy = col

\* C22: the clone of a column is in the column's state and has its
\* length, its capacity and its cells or values in their order, whether
\* the column is empty or not, Raw or Decoded; the clone of a batch has
\* every column of the batch cloned this way, and its error slot.
C22_CloneCopies ==
    [][\A src, dst \in Objects :
          /\ ( /\ last'.op = "column_clone"
               /\ last'.obj = dst
               /\ src # dst )
             => /\ column'[dst] # column[src]
                /\ SameColumn(heap'[column'[dst]], heap[column[src]])
          /\ ( /\ last'.op = "clone"
               /\ last'.obj = dst
               /\ src # dst )
             => /\ columns_len(batch'[dst]) = columns_len(batch[src])
                /\ batch'[dst].some_error = batch[src].some_error
                /\ \A i \in 1..Len(batch[src].columns) :
                      SameColumn(ColumnsOf(dst)'[i], ColumnsOf(src)[i])]_vars

\* A batch with a recorded error, a Decoded first column and a Raw second
\* column of one row has been cloned: the clone holds the error and the
\* same two columns.
C22_Witness ==
    /\ last.op = "clone"
    /\ batch[1].some_error = Some(DataError)
    /\ batch[2].some_error = Some(DataError)
    /\ Len(batch[2].columns) = 2
    /\ is_decoded(ColumnsOf(2)[1])
    /\ is_raw(ColumnsOf(2)[2])
    /\ rows_len(heap, batch[2]) = 1
    /\ ColumnsOf(2) = ColumnsOf(1)

---------------------------------------------------------------------------
(* Decoding and filtering together. *)

\* C24: filtering and decoding commute: when decode of a Raw column has
\* succeeded, retain_by_index(p) of the Decoded column gives, for every
\* index predicate p, the Decoded column that retain_by_index(p) of the
\* Raw column followed by the same decode gives; and in a batch that
\* holds Decoded and Raw columns one retain_by_index(p) removes the same
\* rows from every column.
C24_FilterDecodeCommute ==
    /\ (IsDecodeCall /\ is_raw(last.before) /\ last.res.ok) =>
          \A p \in IndexPreds(len(last.before)) :
              LET filtered == retain_by_index(last.before, p).col
                  then_decoded == decode(filtered, last.arg)
              IN  /\ then_decoded.res = Ok
                  /\ is_decoded(then_decoded.col)
                  /\ retain_by_index(DecodeTarget, p).col.v.data =
                         then_decoded.col.v.data
                  /\ retain_by_index(DecodeTarget, p).col.v.eval_type =
                         then_decoded.col.v.eval_type
    /\ \A o \in Objects :
          (batch[o].live /\ ~Halted) =>
             \A p \in IndexPreds(rows_len(heap, batch[o])) :
                 LET r == rows_retain_by_index(heap, batch[o], p)
                 IN  /\ r.res = Ok
                     /\ \A i \in 1..Len(batch[o].columns) :
                           LET a == batch[o].columns[i]
                           IN  /\ r.heap[a].tag = heap[a].tag
                               /\ r.heap[a].v.data =
                                      RowsKept(heap[a].v.data, p.mask)

\* The second of two columns holding two different values has been
\* decoded while the first is still Raw: dropping the first row of the
\* Decoded column and decoding after dropping it from the Raw one agree.
C24_Witness ==
    /\ last.op = "ensure_column_decoded"
    /\ last.res = Ok
    /\ last.idx = 1
    /\ is_raw(last.before)
    /\ len(last.before) = 2
    /\ Len(batch[1].columns) = 2
    /\ is_raw(ColumnsOf(1)[1])
    /\ is_decoded(ColumnsOf(1)[2])
    /\ ColumnsOf(1)[2].v.data[1] # ColumnsOf(1)[2].v.data[2]

\* The cells of the given cells that hold the encoded NULL datum.
NullCells(cells) == {i \in 1..Len(cells) : cells[i] = DATUM_DATA_NULL}

\* C25: a successful decode gives at the row of every non-empty cell what
\* the decode primitive makes of that cell's own bytes, never the
\* schema's default: under a schema that declares a default value a cell
\* holding the encoded NULL datum decodes to NULL, while an empty cell of
\* the same column decodes to the default.
C25_OwnBytesNotDefault ==
    (IsDecodeCall /\ is_raw(last.before) /\ last.res.ok) =>
        /\ \A i \in 1..len(last.before) :
              last.before.v.data[i] # <<>> =>
                  DecodeTarget.v.data[i] =
                      DecodeDatum(last.before.v.data[i],
                                  DecodeEvalType.eval_type).value
        /\ last.arg.has_default_val =>
              /\ \A i \in NullCells(last.before.v.data) :
                    DecodeTarget.v.data[i] = None
              /\ \A i \in EmptyCells(last.before.v.data) :
                    /\ DecodeTarget.v.data[i] # None
                    /\ DecodeTarget.v.data[i] =
                          DecodeDatum(last.arg.default_val,
                                      DecodeEvalType.eval_type).value

\* A column holding an empty cell and then a cell with the encoded NULL
\* datum has been decoded under a schema with a default value: the first
\* row is the default, the second NULL.
C25_Witness ==
    /\ IsDecodeCall
    /\ is_raw(last.before)
    /\ last.res.ok
    /\ last.arg.has_default_val
    /\ last.before.v.data = << <<>>, DATUM_DATA_NULL >>
    /\ DecodeTarget.v.data[1] # None
    /\ DecodeTarget.v.data[2] = None

\* C26: decode of a Raw column without rows succeeds under every schema
\* whose type tag has an evaluation type, also one flagged NOT NULL
\* without default value, and leaves a Decoded column of that evaluation
\* type with len() 0; so does ensure_column_decoded on a batch that
\* retain_by_index has emptied.
C26_DecodeOfNoRows ==
    ( /\ IsDecodeCall
      /\ is_raw(last.before)
      /\ len(last.before) = 0
      /\ DecodeEvalType.ok )
    => /\ last.res = Ok
       /\ is_decoded(DecodeTarget)
       /\ DecodeTarget.v.eval_type = DecodeEvalType.eval_type
       /\ len(DecodeTarget) = 0
       /\ is_empty(DecodeTarget)

\* ensure_column_decoded has succeeded under a NOT NULL schema without
\* default value on a batch that has no rows left: its columns were
\* created without capacity and have room for rows now, so rows were
\* pushed and filtered away.
C26_Witness ==
    /\ last.op = "ensure_column_decoded"
    /\ last.res = Ok
    /\ last.arg.flag_not_null
    /\ ~last.arg.has_default_val
    /\ is_raw(last.before)
    /\ len(last.before) = 0
    /\ rows_len(heap, batch[1]) = 0
    /\ rows_capacity(heap, batch[1]) = 1
    /\ is_decoded(DecodeTarget)

---------------------------------------------------------------------------
(* Capacity. *)

---------------------------------------------------------------------------
(* Failed pushes, and pushes after a decode. *)

\* The step is a push_raw_row on the batch of object o that ended in a
\* fatal failure.
PushFailed(o) ==
    /\ last'.op = "push_raw_row"
    /\ last'.obj = o
    /\ Fatal(last'.res)

\* The columns of the batch of object o that are Decoded, by position.
DecodedColumns(o) ==
    {i \in 1..Len(batch[o].columns) : is_decoded(ColumnsOf(o)[i])}

\* C28 as stated: whenever push_raw_row ends in a fatal failure no column
\* has gained a cell: every column has the length and cells it had.
C28_AsStated ==
    [][\A o \in Objects :
          PushFailed(o) =>
              \A i \in 1..Len(batch[o].columns) :
                  /\ len(ColumnsOf(o)'[i]) = len(ColumnsOf(o)[i])
                  /\ ColumnsOf(o)'[i] = ColumnsOf(o)[i]]_vars

\* C28: when push_raw_row fails on the number of values no column has
\* changed; when it fails on a Decoded column, the Raw columns before the
\* first Decoded column have gained their value of the row, and that
\* column and every later one are as they were: nothing is pushed only
\* when the first column is Decoded.
C28_PushFailureEffect ==
    [][\A o \in Objects :
          PushFailed(o) =>
              IF Len(last'.arg) # columns_len(batch[o])
              THEN heap' = heap /\ batch' = batch
              ELSE /\ DecodedColumns(o) # {}
                   /\ batch' = batch
                   /\ LET k == CHOOSE i \in DecodedColumns(o) :
                                  \A j \in DecodedColumns(o) : i <= j
                      IN  \A i \in 1..Len(batch[o].columns) :
                              ColumnsOf(o)'[i] =
                                  IF i < k
                                  THEN push_raw(ColumnsOf(o)[i],
                                                last'.arg[i]).col
                                  ELSE ColumnsOf(o)[i]]_vars

\* A row of three values has been pushed into a batch of one row whose
\* second column is Decoded: the push failed, the first column holds two
\* rows, the second and the third one.
C28_Witness ==
    /\ last.op = "push_raw_row"
    /\ last.res = Panic("assert lazy_col.is_raw")
    /\ Len(batch[1].columns) = 3
    /\ is_raw(ColumnsOf(1)[1])
    /\ is_decoded(ColumnsOf(1)[2])
    /\ len(ColumnsOf(1)[1]) = 2
    /\ ColumnsOf(1)[1].v.data[2] = last.arg[1]
    /\ len(ColumnsOf(1)[2]) = 1
    /\ len(ColumnsOf(1)[3]) = 1

\* The batch of object o holds a Decoded column.
HasDecoded(o) == batch[o].live /\ DecodedColumns(o) # {}

\* C29: a successful ensure_column_decoded leaves the batch with a
\* Decoded column; a batch with a Decoded column keeps one through every
\* later operation, retain_by_index that empties it included, and every
\* push_raw_row on it ends in a fatal failure; so a push_raw_row that
\* succeeds is on a batch without Decoded column, such as a clone taken
\* before the decode.
C29_DecodeClosesBatch ==
    [][\A o \in Objects :
          /\ ( /\ last'.op = "ensure_column_decoded"
               /\ last'.obj = o
               /\ last'.res.ok ) => HasDecoded(o)'
          /\ HasDecoded(o) =>
                /\ HasDecoded(o)'
                /\ (last'.op = "push_raw_row" /\ last'.obj = o)
                      => Fatal(last'.res)
          /\ ( /\ last'.op = "push_raw_row"
               /\ last'.obj = o
               /\ last'.res.ok ) => ~HasDecoded(o)]_vars

\* A push has failed on a batch of two columns that decoded a column
\* and was emptied afterwards, while its clone, taken when all columns
\* were Raw, holds a row in Raw columns.
C29_Witness ==
    /\ last.op = "push_raw_row"
    /\ last.obj = 1
    /\ Len(last.arg) = 2
    /\ Fatal(last.res)
    /\ Len(batch[1].columns) = 2
    /\ HasDecoded(1)
    /\ rows_len(heap, batch[1]) = 0
    /\ rows_capacity(heap, batch[1]) > 0
    /\ batch[2].live
    /\ AllRaw(2)
    /\ rows_len(heap, batch[2]) = 1

---------------------------------------------------------------------------
(* Who writes the error slot. *)

\* C30: no operation of the batch writes the error slot: across
\* push_raw_row, ensure_column_decoded and retain_by_index, whatever they
\* return, every batch's slot is what it was, so an error returned by
\* ensure_column_decoded is not recorded in the batch; the slot of a
\* batch changes only when its caller records an error, and a new batch
\* gets its slot from raw (empty) or from the batch it is cloned from.
C30_NoOperationWritesErrorSlot ==
    [][/\ last'.op \in {"push_raw_row", "ensure_column_decoded",
                        "retain_by_index"}
          => \A o \in Objects : batch'[o].some_error = batch[o].some_error
       /\ \A o \in Objects :
             batch'[o].some_error # batch[o].some_error
             => /\ last'.obj = o
                /\ last'.op \in {"set_error", "clone"}
                /\ last'.op = "clone" =>
                      \E src \in Objects \ {o} :
                          batch'[o].some_error = batch[src].some_error]_vars

\* ensure_column_decoded has returned the NOT NULL error on a batch of
\* one row, and the batch's error slot is empty.
C30_Witness ==
    /\ last.op = "ensure_column_decoded"
    /\ last.res.err.kind = "NotNull"
    /\ ~last.res.ok
    /\ batch[1].some_error = None
    /\ rows_len(heap, batch[1]) = 1
    /\ is_raw(ColumnsOf(1)[last.idx + 1])

\* The last decode call found no value in raw cell i of the column: the
\* cell is empty and the schema has no default value and is NOT NULL.
MissingValue(i) ==
    /\ Len(last.before.v.data[i]) = 0
    /\ ~last.arg.has_default_val
    /\ last.arg.flag_not_null

\* The datum the decode primitive is due for raw cell i: the cell's own
\* bytes, or the default value or the encoded NULL for an empty cell.
DatumFor(i) ==
    IF Len(last.before.v.data[i]) > 0
    THEN last.before.v.data[i]
    ELSE IF last.arg.has_default_val
    THEN last.arg.default_val
    ELSE DATUM_DATA_NULL

\* The decode primitive rejects the datum of raw cell i.
PrimitiveRejects(i) ==
    /\ ~MissingValue(i)
    /\ ~DecodeDatum(DatumFor(i), DecodeEvalType.eval_type).ok

\* The rows (from 1) of the column the last decode call was made on whose
\* cell fails under the schema of the call.
FailingRows ==
    {i \in 1..len(last.before) : MissingValue(i) \/ PrimitiveRejects(i)}

FirstFailingRow == CHOOSE i \in FailingRows : \A j \in FailingRows : i <= j

\* The rows the last call invoked the decode primitive for, in order.
RowsInvoked == [k \in 1..Len(last.calls) |-> last.calls[k].row]

\* Rows 0 .. n - 1 in order.
FirstRows(n) == [k \in 1..n |-> k - 1]

\* C31: decode processes the raw cells strictly in row order and stops at
\* the first cell that fails: the error returned is the one of the
\* lowest-indexed failing row (the NOT NULL violation or the error of the
\* decode primitive), the decode primitive is never invoked for a later
\* row, and on success it is invoked exactly once per row, in order, with
\* the datum of that row; a type tag with no evaluation type fails before
\* any cell is processed.
C31_DecodeStopsAtFirstFailure ==
    (IsDecodeCall /\ is_raw(last.before) /\ last.res.panic = "") =>
        IF ~DecodeEvalType.ok
        THEN /\ last.res = Err([kind |-> "EvalType", column_id |-> 0])
             /\ last.calls = <<>>
        ELSE /\ \A k \in 1..Len(last.calls) :
                    last.calls[k].raw_datum = DatumFor(last.calls[k].row + 1)
             /\ IF FailingRows = {}
                THEN /\ last.res.ok
                     /\ RowsInvoked = FirstRows(len(last.before))
                ELSE IF MissingValue(FirstFailingRow)
                THEN /\ last.res = Err([kind |-> "NotNull",
                                        column_id |-> last.arg.column_id])
                     /\ RowsInvoked = FirstRows(FirstFailingRow - 1)
                ELSE /\ last.res = Err([kind |-> "Datum", column_id |-> 0])
                     /\ RowsInvoked = FirstRows(FirstFailingRow)

\* decode has failed on a column of two cells that both fail: the
\* primitive rejected the first, the second is empty under a NOT NULL
\* schema without default; the error is the primitive's and the primitive
\* was invoked for the first row alone.
C31_Witness ==
    /\ IsDecodeCall
    /\ is_raw(last.before)
    /\ DecodeEvalType.ok
    /\ FailingRows = {1, 2}
    /\ PrimitiveRejects(1)
    /\ MissingValue(2)
    /\ last.res.err.kind = "Datum"
    /\ RowsInvoked = <<0>>

====
